---- MODULE Spec2Model ----
(***************************************************************************)
(* GitStatViewer backend (backend/src/index.js): the /track-repo handler,  *)
(* fetchFullHistory, insertCommitDetails and the setInterval poller, as    *)
(* cooperating async tasks on one Node.js event loop.  One action is one   *)
(* resumption of a task: the awaited operation completes (or throws) and   *)
(* the task runs synchronously up to its next await.                       *)
(***************************************************************************)
EXTENDS Integers, Sequences, FiniteSets, Bags, TLC

(* ---------------------------- bounds ---------------------------------- *)
\* number of /track-repo requests one behaviour issues
MaxReq == 2
\* number of tasks (requests and poll runs) in flight at the same time
MaxInFlight == 2
\* number of injected failures (network or store) per behaviour
MaxFaults == 1
\* page size of fetchFullHistory (100 in the source, scaled down)
perPage == 3
\* number of commits pushed to the remote a/b per behaviour
MaxPush == 1
\* number of commits pushed to a/b per behaviour of the poller on its own
MaxBurst == 6

(* ------------------------ program constants --------------------------- *)
\* per_page of the probe and of the poll window
ProbeSize == 5

ReqIds == 1..MaxReq
PollIds == 1..MaxInFlight

(* --------------------------- strings ---------------------------------- *)
\* a string is a sequence of one-character strings
Slash == <<"/">>
\* the value of an unset trackedRepo (null)
NoRepo == <<>>
\* how a template literal renders a missing destructured element
Undefined == <<"undefined">>

\* `${owner}/${repo}`
FullRepoOf(owner, repo) == owner \o Slash \o repo

\* String.prototype.split('/')
RECURSIVE SplitSlash(_)
SplitSlash(s) ==
    IF \A k \in 1..Len(s) : s[k] # "/"
    THEN <<s>>
    ELSE LET k == CHOOSE n \in 1..Len(s) :
                      s[n] = "/" /\ \A m \in 1..(n - 1) : s[m] # "/"
         IN  <<SubSeq(s, 1, k - 1)>> \o SplitSlash(SubSeq(s, k + 1, Len(s)))

\* const [owner, repo] = trackedRepo.split('/')
SplitOwner(key) == SplitSlash(key)[1]
SplitRepo(key) ==
    IF Len(SplitSlash(key)) >= 2 THEN SplitSlash(key)[2] ELSE Undefined

(* ------------------------- the environment ---------------------------- *)
\* request bodies a client may post: two well-formed targets, one body
\* without an owner
Bodies ==
    { [owner |-> <<"a">>, repo |-> <<"b">>],
      [owner |-> <<"c">>, repo |-> <<"d">>],
      [owner |-> <<>>,    repo |-> <<"b">>] }

KeyAB == FullRepoOf(<<"a">>, <<"b">>)
KeyCD == FullRepoOf(<<"c">>, <<"d">>)

\* the remote default-branch histories, newest commit first; c/d is a
\* young fork that shares its two oldest commits with a/b
HistAB == <<6, 5, 4, 3, 2, 1>>
HistCD == <<20, 2, 1>>

Min(a, b) == IF a < b THEN a ELSE b

\* GET /repos/{owner}/{repo}/commits?per_page=n&page=p
ListCommits(hist, n, p) ==
    SubSeq(hist, (p - 1) * n + 1, Min(p * n, Len(hist)))

VARIABLES
    trackedRepo,   \* the tracked slot
    db,            \* the repoCommit table: a bag of rows
    remote,        \* URL path owner/repo -> history
    req,           \* the /track-repo requests
    poll,          \* the poll runs in flight
    faults,        \* failures injected so far
    ui             \* the state of the browser client (App)

\* the state of the backend
vars == <<trackedRepo, db, remote, req, poll, faults>>

(* ----------------------------- store ---------------------------------- *)
\* prisma.repoCommit.findUnique({ where: { sha } })
FindUnique(table, sha) == \E row \in BagToSet(table) : row.sha = sha

\* the schema's unique sha (the field findUnique looks rows up by): a
\* second row with a stored sha is refused
UniqueViolation(table, row) == FindUnique(table, row.sha)

\* an upsert in place of the create: the row replaces the one stored for
\* its sha
CreateUpsert(table, row) ==
    SetToBag({ x \in BagToSet(table) : x.sha # row.sha } \cup {row})
\* prisma.repoCommit.create: the row is added; when it is refused the call
\* throws and the table is unchanged
Create(table, row) ==
    IF UniqueViolation(table, row) THEN table ELSE table (+) SetToBag({row})

Shas(table) == { row.sha : row \in BagToSet(table) }

\* prisma.repoCommit.findMany({ where: { repo: fullRepo } }); the rows of
\* this table carry no timestamp, the order of the answer is left open
FindMany(table, fullRepo) ==
    { row \in BagToSet(table) : row.repo = fullRepo }

\* detail.data.stats of GET /repos/{owner}/{repo}/commits/{sha} (line 139):
\* <<>> where the detail carries no stats, as for the commits 2, 5, 8, ...,
\* else <<stats>> with the counts GitHub reports, which are not negative
DetailStats(sha) ==
    IF sha % 3 = 2 THEN <<>>
    ELSE <<[additions |-> 10 * sha, deletions |-> sha % 2]>>
\* stats?.additions without a default: -1 stands for undefined
StatUndefined(stats, field) == IF stats = <<>> THEN -1 ELSE stats[1][field]
\* stats?.additions || 0, stats?.deletions || 0 (lines 149-150)
StatOrZero(stats, field) == IF stats = <<>> THEN 0 ELSE stats[1][field]

\* the row insertCommitDetails writes, without its author and timestamp
Row(sha, fullRepo) ==
    [sha |-> sha, repo |-> fullRepo,
     additions |-> StatOrZero(DetailStats(sha), "additions"),
     deletions |-> StatOrZero(DetailStats(sha), "deletions")]

(* ------------------------ /track-repo state --------------------------- *)
\* the locals of one request, and what an observer of it records: the slot
\* it found (startSlot), the branch it took (mode), the calls of it that
\* threw (errs), whether a create of it was refused (taken), whether the
\* remote history changed while it ran (moved), whether it repeats a request
\* for its target that had failed before it arrived (retry)
ReqIdle ==
    [pc |-> "idle", owner |-> <<>>, repo |-> <<>>, fullRepo |-> <<>>,
     latestCommits |-> <<>>, newShas |-> <<>>, i |-> 0, page |-> 0,
     commits |-> <<>>, sha |-> 0, ret |-> "none", status |-> 0,
     startSlot |-> NoRepo, mode |-> "none", taken |-> FALSE,
     moved |-> FALSE, retry |-> FALSE, errs |-> {}]

\* the locals die with the handler
Ended(q, status) ==
    [q EXCEPT !.pc = "done", !.status = status,
              !.latestCommits = <<>>, !.newShas = <<>>, !.i = 0, !.page = 0,
              !.commits = <<>>, !.sha = 0, !.ret = "none", !.moved = FALSE,
              !.retry = FALSE]

\* if (trackedRepo && trackedRepo !== fullRepo)
ConflictNever(tracked, fullRepo) == FALSE
Conflict(tracked, fullRepo) == tracked # NoRepo /\ tracked # fullRepo

\* lines 86-87: trackedRepo = fullRepo; res.json(...)
Finish(q) == Ended(q, 200)

\* lines 89-91: the catch of the handler
Fail500(q, where) == [Ended(q, 500) EXCEPT !.errs = @ \cup {where}]

\* the slot after a step of a request: written only by lines 86-87
SlotAfterAlways(q, tracked) == IF q.pc = "done" THEN q.fullRepo ELSE tracked
SlotAfter(q, tracked) ==
    IF q.pc = "done" /\ q.status = 200 THEN q.fullRepo ELSE tracked

\* lines 70, 75, 81: the branch taken on newShas
ModeOfAny(newShas) == IF Len(newShas) > 0 THEN "backfill" ELSE "noop"
ModeOf(newShas) ==
    IF Len(newShas) = ProbeSize THEN "backfill"
    ELSE IF Len(newShas) > 0 THEN "topup"
    ELSE "noop"

\* line 129: hasMore = commits.length === perPage
HasMoreNever(commits) == Len(commits) > perPage
HasMoreAlways(commits) == TRUE
HasMore(commits) == Len(commits) = perPage

\* lines 69-83, entered when the probe loop is over
StartMode(q) ==
    LET m == ModeOf(q.newShas) IN
    IF m = "backfill"
    THEN [q EXCEPT !.mode = m, !.page = 1, !.pc = "page", !.i = 0]
    ELSE IF m = "topup"
    THEN [q EXCEPT !.mode = m, !.i = 1, !.sha = q.newShas[1],
                   !.ret = "topup", !.pc = "detail"]
    ELSE Finish([q EXCEPT !.mode = m])

\* a loop that takes every second commit of the page
NextCommitSkip(q) ==
    IF q.i + 1 < Len(q.commits)
    THEN [q EXCEPT !.i = @ + 2, !.pc = "pexists", !.sha = 0, !.ret = "none"]
    ELSE Finish(q)
\* lines 124-131: the next commit of the page, the next page, or the end
NextCommit(q) ==
    IF q.i < Len(q.commits)
    THEN [q EXCEPT !.i = @ + 1, !.pc = "pexists", !.sha = 0, !.ret = "none"]
    ELSE IF HasMore(q.commits)
    THEN [q EXCEPT !.page = @ + 1, !.pc = "page", !.i = 0, !.commits = <<>>,
                   !.sha = 0, !.ret = "none"]
    ELSE Finish(q)

\* the caller's loop after insertCommitDetails returned (lines 77-80, 127)
AfterInsertEarly(q) == Finish(q)
AfterInsert(q) ==
    IF q.ret = "topup"
    THEN IF q.i < Len(q.newShas)
         THEN [q EXCEPT !.i = @ + 1, !.sha = q.newShas[q.i + 1],
                        !.pc = "detail"]
         ELSE Finish(q)
    ELSE NextCommit(q)

\* lines 155-157 after a throw of the create: logged, the caller goes on
AfterTakenRethrow(q) == Fail500(q, "create")
AfterTaken(q) == AfterInsert(q)

(* --------------------------- poll state ------------------------------- *)
\* line 165: if (!trackedRepo) return
TrackingAlways(tracked) == TRUE
Tracking(tracked) == tracked # NoRepo

PollIdle ==
    [pc |-> "idle", owner |-> <<>>, repo |-> <<>>, data |-> <<>>, i |-> 0,
     sha |-> 0, fullRepo |-> <<>>, key0 |-> NoRepo]

\* lines 175-179: the next commit of the window, or the end of the run
PollNext(p) ==
    IF p.i < Len(p.data)
    THEN [p EXCEPT !.i = @ + 1, !.pc = "exists", !.sha = 0, !.fullRepo = <<>>]
    ELSE PollIdle

\* line 178: if (!exists) await insertCommitDetails(owner, repo, sha,
\* trackedRepo)
PollAfterCheckAlways(p, sha, exists, tracked) ==
    [p EXCEPT !.sha = sha, !.fullRepo = tracked, !.pc = "detail"]
PollAfterCheck(p, sha, exists, tracked) ==
    IF exists THEN PollNext(p)
    ELSE [p EXCEPT !.sha = sha, !.fullRepo = tracked, !.pc = "detail"]

(* --------------------------- client state ----------------------------- *)
\* useState: no commits, no chart; zone and now are the browser's time zone
\* and clock, shown says which generateChartData filled chartData.
\* totalLines (useState()) and repoStats (useState(null)) hold no value yet:
\* <<>>, and <<v>> once the setter was called with v
UiIdle ==
    [commitList |-> <<>>, zone |-> [before |-> 0, after |-> 0, switch |-> 0],
     now |-> 0, commits |-> <<>>, chartData |-> <<>>, totalLines |-> <<>>,
     repoStats |-> <<>>, shown |-> "none"]

(* ------------------------------ Init ---------------------------------- *)
Init ==
    /\ trackedRepo = NoRepo
    /\ db = EmptyBag
    /\ remote = (KeyAB :> HistAB) @@ (KeyCD :> HistCD)
    /\ req = [r \in ReqIds |-> ReqIdle]
    /\ poll = [p \in PollIds |-> PollIdle]
    /\ faults = 0
    /\ ui = UiIdle

\* a failure of the network or of the store may be injected
MayFail == faults < MaxFaults

\* the tasks suspended on an await
InFlight ==
    Cardinality({ r \in ReqIds : req[r].pc \notin {"idle", "done"} })
    + Cardinality({ p \in PollIds : poll[p].pc # "idle" })

\* the history the URL /repos/{owner}/{repo}/commits serves
Hist(owner, repo) == remote[FullRepoOf(owner, repo)]

(* ----------------------- /track-repo actions -------------------------- *)
\* lines 40-58: validation, the single-target check, the probe is issued
TrackRepo(r, body) ==
    /\ req[r].pc = "idle"
    /\ \A s \in ReqIds : s < r => req[s].pc # "idle"
    /\ LET fullRepo == FullRepoOf(body.owner, body.repo)
           q0 == [req[r] EXCEPT !.owner = body.owner, !.repo = body.repo,
                                !.startSlot = trackedRepo]
           q1 == [q0 EXCEPT !.fullRepo = fullRepo,
                            !.retry = \E s \in ReqIds :
                                /\ req[s].pc = "done" /\ req[s].status = 500
                                /\ req[s].fullRepo = fullRepo]
       IN  req' = [req EXCEPT ![r] =
                IF body.owner = <<>> \/ body.repo = <<>>
                THEN Ended(q0, 400)
                ELSE IF Conflict(trackedRepo, fullRepo)
                THEN Ended(q1, 400)
                ELSE [q1 EXCEPT !.pc = "probe"]]
    /\ req'[r].pc = "probe" => InFlight < MaxInFlight
    /\ UNCHANGED <<trackedRepo, db, remote, poll, faults>>

\* lines 55-64: the probe answers
ProbeOk(r) ==
    /\ req[r].pc = "probe"
    /\ LET q == req[r]
           latest == ListCommits(Hist(q.owner, q.repo), ProbeSize, 1)
           q1 == [q EXCEPT !.latestCommits = latest]
           q2 == IF Len(latest) = 0 THEN StartMode(q1)
                 ELSE [q1 EXCEPT !.i = 1, !.pc = "exists"]
       IN  /\ req' = [req EXCEPT ![r] = q2]
           /\ trackedRepo' = SlotAfter(q2, trackedRepo)
    /\ UNCHANGED <<db, remote, poll, faults>>

\* line 55 throws
ProbeFail(r) ==
    /\ req[r].pc = "probe"
    /\ MayFail
    /\ faults' = faults + 1
    /\ LET q2 == Fail500(req[r], "list")
       IN  /\ req' = [req EXCEPT ![r] = q2]
           /\ trackedRepo' = SlotAfter(q2, trackedRepo)
    /\ UNCHANGED <<db, remote, poll>>

\* lines 64-68: one membership check of the probe loop answers
ExistsOk(r) ==
    /\ req[r].pc = "exists"
    /\ LET q == req[r]
           sha == q.latestCommits[q.i]
           exists == FindUnique(db, sha)
           q1 == [q EXCEPT !.newShas = IF exists THEN @ ELSE Append(@, sha)]
           q2 == IF q.i < Len(q.latestCommits)
                 THEN [q1 EXCEPT !.i = @ + 1]
                 ELSE StartMode(q1)
       IN  /\ req' = [req EXCEPT ![r] = q2]
           /\ trackedRepo' = SlotAfter(q2, trackedRepo)
    /\ UNCHANGED <<db, remote, poll, faults>>

\* line 66 throws
ExistsFail(r) ==
    /\ req[r].pc = "exists"
    /\ MayFail
    /\ faults' = faults + 1
    /\ LET q2 == Fail500(req[r], "exists")
       IN  /\ req' = [req EXCEPT ![r] = q2]
           /\ trackedRepo' = SlotAfter(q2, trackedRepo)
    /\ UNCHANGED <<db, remote, poll>>

\* lines 117-124: a page of fetchFullHistory answers
PageOk(r) ==
    /\ req[r].pc = "page"
    /\ LET q == req[r]
           commits == ListCommits(Hist(q.owner, q.repo), perPage, q.page)
           q2 == IF Len(commits) = 0 THEN Finish(q)
                 ELSE [q EXCEPT !.commits = commits, !.i = 1, !.pc = "pexists"]
       IN  /\ req' = [req EXCEPT ![r] = q2]
           /\ trackedRepo' = SlotAfter(q2, trackedRepo)
    /\ UNCHANGED <<db, remote, poll, faults>>

\* line 117 throws
PageFail(r) ==
    /\ req[r].pc = "page"
    /\ MayFail
    /\ faults' = faults + 1
    /\ LET q2 == Fail500(req[r], "page")
       IN  /\ req' = [req EXCEPT ![r] = q2]
           /\ trackedRepo' = SlotAfter(q2, trackedRepo)
    /\ UNCHANGED <<db, remote, poll>>

\* lines 125-127: the membership check of a backfilled commit answers
PExistsOk(r) ==
    /\ req[r].pc = "pexists"
    /\ LET q == req[r]
           sha == q.commits[q.i]
           q2 == IF FindUnique(db, sha)
                 THEN NextCommit(q)
                 ELSE [q EXCEPT !.sha = sha, !.ret = "backfill",
                                !.pc = "detail"]
       IN  /\ req' = [req EXCEPT ![r] = q2]
           /\ trackedRepo' = SlotAfter(q2, trackedRepo)
    /\ UNCHANGED <<db, remote, poll, faults>>

\* line 126 throws
PExistsFail(r) ==
    /\ req[r].pc = "pexists"
    /\ MayFail
    /\ faults' = faults + 1
    /\ LET q2 == Fail500(req[r], "exists")
       IN  /\ req' = [req EXCEPT ![r] = q2]
           /\ trackedRepo' = SlotAfter(q2, trackedRepo)
    /\ UNCHANGED <<db, remote, poll>>

\* lines 137-154 and the caller's loop: the detail answers and the create
\* stores the row; a taken sha throws into lines 155-157
InsertOk(r) ==
    /\ req[r].pc = "detail"
    /\ LET q == req[r]
           row == Row(q.sha, q.fullRepo)
           q2 == IF UniqueViolation(db, row)
                 THEN AfterTaken([q EXCEPT !.taken = TRUE])
                 ELSE AfterInsert(q)
       IN  /\ db' = Create(db, row)
           /\ req' = [req EXCEPT ![r] = q2]
           /\ trackedRepo' = SlotAfter(q2, trackedRepo)
    /\ UNCHANGED <<remote, poll, faults>>

\* the same throw without the try/catch of lines 137 and 155: it reaches the
\* catch of the handler (lines 89-91)
InsertFailThrows(r, where) ==
    /\ req[r].pc = "detail"
    /\ MayFail
    /\ faults' = faults + 1
    /\ LET q2 == Fail500(req[r], where)
       IN  /\ req' = [req EXCEPT ![r] = q2]
           /\ trackedRepo' = SlotAfter(q2, trackedRepo)
    /\ UNCHANGED <<db, remote, poll>>

\* line 138 or line 143 throws, lines 155-157 swallow it
InsertFail(r, where) ==
    /\ req[r].pc = "detail"
    /\ MayFail
    /\ faults' = faults + 1
    /\ LET q2 == AfterInsert([req[r] EXCEPT !.errs = @ \cup {where}])
       IN  /\ req' = [req EXCEPT ![r] = q2]
           /\ trackedRepo' = SlotAfter(q2, trackedRepo)
    /\ UNCHANGED <<db, remote, poll>>

(* --------------------------- /commits --------------------------------- *)
\* lines 96-107: the rows of a target are read and sent; nothing is written
GetCommits(params) ==
    /\ FindMany(db, FullRepoOf(params.owner, params.repo))
           \subseteq BagToSet(db)
    /\ UNCHANGED vars

(* ----------------------------- the remote ----------------------------- *)
\* a commit is pushed to a/b: it heads the history the API serves from now
\* on; a request in flight for a/b has then seen a history that moved
PushUpTo(n) ==
    /\ Len(remote[KeyAB]) < Len(HistAB) + n
    /\ remote' = [remote EXCEPT
                     ![KeyAB] = <<Len(remote[KeyAB]) + 1>> \o @]
    /\ req' = [r \in ReqIds |->
                 IF req[r].pc \notin {"idle", "done"} /\ req[r].fullRepo = KeyAB
                 THEN [req[r] EXCEPT !.moved = TRUE]
                 ELSE req[r]]
    /\ UNCHANGED <<trackedRepo, db, poll, faults>>

Push == PushUpTo(MaxPush)

(* --------------------------- poll actions ----------------------------- *)
\* lines 164-165: a tick while nothing is tracked returns at once
PollTickIdle ==
    /\ ~Tracking(trackedRepo)
    /\ UNCHANGED vars

\* lines 164-173: a tick starts a run and issues the list fetch
PollTick(p) ==
    /\ Tracking(trackedRepo)
    /\ InFlight < MaxInFlight
    /\ poll[p].pc = "idle"
    /\ \A s \in PollIds : s < p => poll[s].pc # "idle"
    /\ poll' = [poll EXCEPT ![p] =
                  [PollIdle EXCEPT !.pc = "list",
                                   !.owner = SplitOwner(trackedRepo),
                                   !.repo = SplitRepo(trackedRepo),
                                   !.key0 = trackedRepo]]
    /\ UNCHANGED <<trackedRepo, db, remote, req, faults>>

\* lines 168-175: the window answers
PollListOk(p) ==
    /\ poll[p].pc = "list"
    /\ LET q == poll[p]
           data == ListCommits(Hist(q.owner, q.repo), ProbeSize, 1)
       IN  poll' = [poll EXCEPT ![p] =
                      IF Len(data) = 0 THEN PollIdle
                      ELSE [q EXCEPT !.data = data, !.i = 1, !.pc = "exists"]]
    /\ UNCHANGED <<trackedRepo, db, remote, req, faults>>

\* the same throw without the try/catch of lines 166 and 180: the rejection
\* is unhandled, the process ends and restarts with nothing tracked
PollFailFatal(p) ==
    /\ poll[p].pc \in {"list", "exists"}
    /\ MayFail
    /\ faults' = faults + 1
    /\ poll' = [q \in PollIds |-> PollIdle]
    /\ trackedRepo' = NoRepo
    /\ UNCHANGED <<db, remote, req>>

\* a throw of line 168, 177: lines 180-182 log it and the run ends
PollFail(p) ==
    /\ poll[p].pc \in {"list", "exists"}
    /\ MayFail
    /\ faults' = faults + 1
    /\ poll' = [poll EXCEPT ![p] = PollIdle]
    /\ UNCHANGED <<trackedRepo, db, remote, req>>

\* lines 176-178: a membership check answers; insertCommitDetails is called
\* with the slot as it is now
PollExistsOk(p) ==
    /\ poll[p].pc = "exists"
    /\ LET q == poll[p]
           sha == q.data[q.i]
       IN  poll' = [poll EXCEPT ![p] =
                      PollAfterCheck(q, sha, FindUnique(db, sha), trackedRepo)]
    /\ UNCHANGED <<trackedRepo, db, remote, req, faults>>

\* lines 137-154 for a poll run
PollInsertOk(p) ==
    /\ poll[p].pc = "detail"
    /\ db' = Create(db, Row(poll[p].sha, poll[p].fullRepo))
    /\ poll' = [poll EXCEPT ![p] = PollNext(poll[p])]
    /\ UNCHANGED <<trackedRepo, remote, req, faults>>

\* a throw of line 138 or 143 in a poll run, swallowed by lines 155-157
PollInsertFail(p) ==
    /\ poll[p].pc = "detail"
    /\ MayFail
    /\ faults' = faults + 1
    /\ poll' = [poll EXCEPT ![p] = PollNext(poll[p])]
    /\ UNCHANGED <<trackedRepo, db, remote, req>>

(* ------------------------------ Next ---------------------------------- *)
Next ==
    \/ \E r \in ReqIds, body \in Bodies : TrackRepo(r, body)
    \/ \E r \in ReqIds : ProbeOk(r)
    \/ \E r \in ReqIds : ProbeFail(r)
    \/ \E r \in ReqIds : ExistsOk(r)
    \/ \E r \in ReqIds : ExistsFail(r)
    \/ \E r \in ReqIds : PageOk(r)
    \/ \E r \in ReqIds : PageFail(r)
    \/ \E r \in ReqIds : PExistsOk(r)
    \/ \E r \in ReqIds : PExistsFail(r)
    \/ \E r \in ReqIds : InsertOk(r)
    \/ \E r \in ReqIds, where \in {"detail", "create"} : InsertFail(r, where)
    \/ \E params \in Bodies : GetCommits(params)
    \/ Push
    \/ PollTickIdle
    \/ \E p \in PollIds : PollTick(p)
    \/ \E p \in PollIds : PollListOk(p)
    \/ \E p \in PollIds : PollFail(p)
    \/ \E p \in PollIds : PollExistsOk(p)
    \/ \E p \in PollIds : PollInsertOk(p)
    \/ \E p \in PollIds : PollInsertFail(p)

\* the backend on its own: no client is looking
Spec == Init /\ [][Next /\ UNCHANGED ui]_vars

(* ------------------- the poller on a tracked target ------------------- *)
\* the state after POST /track-repo {owner: a, repo: b} backfilled the six
\* commits of a/b without an error and was answered 200 (lines 86-87)
InitLive ==
    /\ trackedRepo = KeyAB
    /\ db = SetToBag({ Row(HistAB[k], KeyAB) : k \in DOMAIN HistAB })
    /\ remote = (KeyAB :> HistAB) @@ (KeyCD :> HistCD)
    /\ req = [r \in ReqIds |->
                IF r = 1
                THEN [ReqIdle EXCEPT !.pc = "done", !.status = 200,
                                     !.owner = <<"a">>, !.repo = <<"b">>,
                                     !.fullRepo = KeyAB, !.mode = "backfill"]
                ELSE ReqIdle]
    /\ poll = [p \in PollIds |-> PollIdle]
    /\ faults = 0
    /\ ui = UiIdle

\* commits are pushed to a/b, in bursts of any length
PushBurst == PushUpTo(MaxBurst)

\* the timer and the runs it starts, with remote calls and store calls that
\* succeed
NextLive ==
    \/ PushBurst
    \/ \E p \in PollIds : PollTick(p)
    \/ \E p \in PollIds : PollListOk(p)
    \/ \E p \in PollIds : PollExistsOk(p)
    \/ \E p \in PollIds : PollInsertOk(p)

\* setInterval fires again and again, and every awaited call of a run
\* answers
FairLive ==
    /\ WF_vars(\E p \in PollIds : PollTick(p))
    /\ \A p \in PollIds :
           /\ WF_vars(PollListOk(p))
           /\ WF_vars(PollExistsOk(p))
           /\ WF_vars(PollInsertOk(p))

SpecLive == InitLive /\ [][NextLive /\ UNCHANGED ui]_vars /\ FairLive

(* ------------------- fetchFullHistory on its own ---------------------- *)
\* the longest history fetchFullHistory is called on
MaxHistory == 7
\* the histories of a/b: n commits, the newest first
Histories == { [k \in 1..n |-> n + 1 - k] : n \in 0..MaxHistory }

\* fetchFullHistory(a, b, a/b) has been called and awaits its first page
\* (lines 110-117); the table holds no commit of the history, its oldest
\* one, or all of them
InitBackfill ==
    /\ trackedRepo = NoRepo
    /\ \E hist \in Histories :
           /\ remote = (KeyAB :> hist) @@ (KeyCD :> HistCD)
           /\ \E stored \in { {}, { hist[k] : k \in DOMAIN hist } \cap {1},
                              { hist[k] : k \in DOMAIN hist } } :
                  db = SetToBag({ Row(sha, KeyAB) : sha \in stored })
    /\ req = [r \in ReqIds |->
                IF r = 1
                THEN [ReqIdle EXCEPT !.pc = "page", !.page = 1,
                                     !.owner = <<"a">>, !.repo = <<"b">>,
                                     !.fullRepo = KeyAB, !.mode = "backfill"]
                ELSE ReqIdle]
    /\ poll = [p \in PollIds |-> PollIdle]
    /\ faults = 0
    /\ ui = UiIdle

\* the loop of fetchFullHistory, with calls that answer or throw
NextBackfill ==
    \/ PageOk(1)
    \/ PageFail(1)
    \/ PExistsOk(1)
    \/ PExistsFail(1)
    \/ InsertOk(1)
    \/ \E where \in {"detail", "create"} : InsertFail(1, where)

\* every awaited call answers
FairBackfill ==
    /\ WF_vars(PageOk(1))
    /\ WF_vars(PExistsOk(1))
    /\ WF_vars(InsertOk(1))

SpecBackfill ==
    InitBackfill /\ [][NextBackfill /\ UNCHANGED ui]_vars /\ FairBackfill

(* ======================= the browser client =========================== *)
\* generateChartData, in its two versions: frontend/src/App.jsx lines 84-123
\* and the later one with the date range of the commits, lines 109-155.
\* An instant is a number of hours since the epoch (UTC).

\* number of commits in the list handed to generateChartData
MaxCommits == 3
\* the hours of a day
HoursPerDay == 24

\* commit.timestamp: day 0 10:00, day 1 10:00, day 2 10:00 and 12:00, day 3
\* 10:00 (UTC)
Stamps == {10, 34, 58, 60, 82}
\* (additions, deletions) of a commit
Changes == { <<10, 0>>, <<5, 0>>, <<0, 3>> }
\* the records /commits answers with, as far as the chart reads them
Commits ==
    { [timestamp |-> t, additions |-> c[1], deletions |-> c[2]] :
          t \in Stamps, c \in Changes }
CommitLists == UNION { [1..n -> Commits] : n \in 0..MaxCommits }

\* the browser's time zone: UTC, and a zone one hour east of UTC whose
\* clocks go forward, or back, one hour at 01:00 UTC of day 1
Zones ==
    { [before |-> 0, after |-> 0, switch |-> 0],
      [before |-> 1, after |-> 2, switch |-> 25],
      [before |-> 2, after |-> 1, switch |-> 25] }
\* new Date(): day 3 12:00 and day 4 04:00 (UTC)
Nows == {84, 100}

\* the local time zone offset at the instant t
Offset(zone, t) == IF t >= zone.switch THEN zone.after ELSE zone.before
\* the instant of the local time l: where two instants show l the one before
\* the change, where none does the offset before the change is used
LocalToUtc(zone, l) ==
    IF l - zone.before < zone.switch THEN l - zone.before
    ELSE IF l - zone.after >= zone.switch THEN l - zone.after
    ELSE l - zone.before

\* toISOString().split('T')[0]: the UTC date, as a day number
DateKey(t) == t \div HoursPerDay
\* toLocaleDateString(): the local date, as a day number
DisplayDate(zone, t) == (t + Offset(zone, t)) \div HoursPerDay
\* new Date('yyyy-mm-dd'): the UTC midnight of the day
DateOfKey(day) == day * HoursPerDay
\* cursor.setDate(cursor.getDate() + 1): the same local time one local
\* calendar day later
SetNextDate(zone, t) == LocalToUtc(zone, t + Offset(zone, t) + HoursPerDay)
\* today.setHours(0, 0, 0, 0): the local midnight of the local day of t
SetHoursZero(zone, t) ==
    LocalToUtc(zone, ((t + Offset(zone, t)) \div HoursPerDay) * HoursPerDay)

\* [...commitList].sort((a, b) => new Date(a.timestamp) - new Date(b.timestamp))
\* Array.prototype.sort is stable
RECURSIVE SortInsert(_, _)
SortInsert(sorted, c) ==
    IF sorted = <<>> THEN <<c>>
    ELSE IF sorted[Len(sorted)].timestamp <= c.timestamp
    THEN Append(sorted, c)
    ELSE Append(SortInsert(SubSeq(sorted, 1, Len(sorted) - 1), c),
                sorted[Len(sorted)])
\* the list as it was received
Unsorted(list) == list
RECURSIVE SortByTimestamp(_)
SortByTimestamp(list) ==
    IF list = <<>> THEN <<>>
    ELSE SortInsert(SortByTimestamp(SubSeq(list, 1, Len(list) - 1)),
                    list[Len(list)])

\* totalLines after the first k commits of the sorted list
RECURSIVE TotalLines(_, _)
TotalLines(sorted, k) ==
    IF k = 0 THEN 0
    ELSE TotalLines(sorted, k - 1)
         + sorted[k].additions - sorted[k].deletions

\* the Map built by the forEach: every set overwrites, so a day maps to
\* totalLines after its last commit
LinesPerDay(sorted) ==
    [d \in { DateKey(sorted[k].timestamp) : k \in DOMAIN sorted } |->
        LET k == CHOOSE j \in DOMAIN sorted :
                    /\ DateKey(sorted[j].timestamp) = d
                    /\ \A m \in DOMAIN sorted :
                           DateKey(sorted[m].timestamp) = d => m <= j
        IN  TotalLines(sorted, k)]

\* allDates[0] and allDates[allDates.length - 1] of the sorted keys
FirstKey(lpd) == CHOOSE d \in DOMAIN lpd : \A e \in DOMAIN lpd : d <= e
LastKey(lpd) == CHOOSE d \in DOMAIN lpd : \A e \in DOMAIN lpd : e <= d

\* data.push({ name: displayDate, lines: value })
Point(zone, cursor, value) ==
    [name |-> DisplayDate(zone, cursor), lines |-> value]

\* lines 139-150 of the later version: while (cursor <= lastDate)
RECURSIVE WalkToLast(_, _, _, _, _, _)
WalkToLast(zone, cursor, lastDate, lpd, lastValue, data) ==
    IF cursor > lastDate THEN data
    ELSE LET value == IF DateKey(cursor) \in DOMAIN lpd
                      THEN lpd[DateKey(cursor)] ELSE lastValue
         IN  WalkToLast(zone, SetNextDate(zone, cursor), lastDate, lpd, value,
                        Append(data, Point(zone, cursor, value)))

\* generateChartData, lines 109-155 of the later version
generateChartData(zone, commitList) ==
    LET sortedCommits == SortByTimestamp(commitList)
        linesPerDay == LinesPerDay(sortedCommits)
    IN  IF Len(sortedCommits) = 0 THEN <<>>
        ELSE WalkToLast(zone, DateOfKey(FirstKey(linesPerDay)),
                        DateOfKey(LastKey(linesPerDay)), linesPerDay, 0, <<>>)

\* lines 109-121 of App.jsx: while (cursor <= today)
RECURSIVE WalkToToday(_, _, _, _, _)
WalkToToday(zone, cursor, today, lpd, data) ==
    IF cursor > today THEN data
    ELSE LET value == IF DateKey(cursor) \in DOMAIN lpd
                      THEN lpd[DateKey(cursor)]
                      ELSE IF Len(data) > 0 THEN data[Len(data)].lines
                      ELSE 0
         IN  WalkToToday(zone, SetNextDate(zone, cursor), today, lpd,
                         Append(data, Point(zone, cursor, value)))

\* generateChartData, lines 84-123 of App.jsx
generateChartDataApp(zone, now, commitList) ==
    LET sortedCommits == SortByTimestamp(commitList)
    IN  IF Len(sortedCommits) = 0 THEN <<>>
        ELSE WalkToToday(zone, sortedCommits[1].timestamp,
                         SetHoursZero(zone, now),
                         LinesPerDay(sortedCommits), <<>>)

\* a client that has received a list of commits, in some time zone at some
\* time, and has not drawn its chart yet
InitChart ==
    /\ trackedRepo = NoRepo
    /\ db = EmptyBag
    /\ remote = (KeyAB :> HistAB) @@ (KeyCD :> HistCD)
    /\ req = [r \in ReqIds |-> ReqIdle]
    /\ poll = [p \in PollIds |-> PollIdle]
    /\ faults = 0
    /\ \E list \in CommitLists, zone \in Zones, now \in Nows :
           ui = [UiIdle EXCEPT !.commitList = list, !.zone = zone,
                               !.now = now]

\* the totalLines state after generateChartData, lines 109-155 of the later
\* version: the empty list returns at line 117, before setTotalLines (153)
setTotalLines(old, commitList) ==
    LET sortedCommits == SortByTimestamp(commitList)
    IN  IF Len(sortedCommits) = 0 THEN old
        ELSE <<TotalLines(sortedCommits, Len(sortedCommits))>>

\* pollCommits calls generateChartData (the later version)
GenerateChart ==
    /\ ui.shown = "none"
    /\ ui' = [ui EXCEPT
                 !.chartData = generateChartData(ui.zone, ui.commitList),
                 !.totalLines = setTotalLines(ui.totalLines, ui.commitList),
                 !.shown = "range"]
    /\ UNCHANGED vars

\* pollCommits calls generateChartData (App.jsx)
GenerateChartApp ==
    /\ ui.shown = "none"
    /\ ui' = [ui EXCEPT
                 !.chartData =
                     generateChartDataApp(ui.zone, ui.now, ui.commitList),
                 !.shown = "today"]
    /\ UNCHANGED vars

NextChart == GenerateChart \/ GenerateChartApp

SpecChart == InitChart /\ [][NextChart]_<<vars, ui>>

(* --------------------------- computeStats ----------------------------- *)
\* computeStats, in its two versions: frontend/src/App.jsx lines 56-82 and
\* the later one with normalizeName and the percentages, lines 60-106.
\* commit.author is a string, here the sequence of its characters.

\* 'Pat H', 'patH', 'Ann' and 'constructor'
PatSpaced == <<"P", "a", "t", " ", "H">>
PatJoined == <<"p", "a", "t", "H">>
Ann == <<"A", "n", "n">>
Ctor == <<"c", "o", "n", "s", "t", "r", "u", "c", "t", "o", "r">>
Authors == {PatSpaced, PatJoined, Ann, Ctor}

\* commit.timestamp of the commits handed to computeStats
StatStamps == {10, 34}
\* their (additions, deletions)
StatChanges == { <<10, 0>>, <<0, 3>>, <<0, 0>> }
\* the records /commits answers with, as far as pollCommits reads them
StatCommits ==
    { [timestamp |-> t, additions |-> c[1], deletions |-> c[2],
       author |-> a] : t \in StatStamps, c \in StatChanges, a \in Authors }
StatLists == UNION { [1..n -> StatCommits] : n \in 0..MaxCommits }

\* \s
Whitespace == {" ", "\t"}
\* toLowerCase() of a character
ToLowerCase(c) ==
    CASE c = "P" -> "p"
      [] c = "H" -> "h"
      [] c = "A" -> "a"
      [] OTHER -> c
\* the key of the older version: the author as it is
RawName(name) == name
\* name.replace(/\s+/g, '').toLowerCase()
normalizeName(name) ==
    LET stripped == SelectSeq(name, LAMBDA c : c \notin Whitespace)
    IN  [k \in DOMAIN stripped |-> ToLowerCase(stripped[k])]

\* const authorStats = {}: the properties the object inherits from
\* Object.prototype whose names a normalized name can spell
ObjectPrototype ==
    { Ctor, <<"_", "_", "p", "r", "o", "t", "o", "_", "_">> }
\* authorStats[key] is truthy: an own property, or an inherited one
HasProperty(authorStats, key) ==
    \/ \E k \in DOMAIN authorStats : authorStats[k].key = key
    \/ key \in ObjectPrototype

\* one iteration of the loop over the commits: authorStats is the sequence
\* of its own properties in the order of their creation; with an inherited
\* property under the key no entry is created and the three += land on the
\* inherited object
AddCommit(authorStats, key, commit) ==
    LET created ==
            IF HasProperty(authorStats, key) THEN authorStats
            ELSE Append(authorStats,
                        [key |-> key, author |-> commit.author, commits |-> 0,
                         additions |-> 0, deletions |-> 0])
    IN  [k \in DOMAIN created |->
            IF created[k].key = key
            THEN [created[k] EXCEPT !.commits = @ + 1,
                                    !.additions = @ + commit.additions,
                                    !.deletions = @ + commit.deletions]
            ELSE created[k]]

\* authorStats after the first k commits, keyed by the normalized name
RECURSIVE AuthorStats(_, _)
AuthorStats(commits, k) ==
    IF k = 0 THEN <<>>
    ELSE AddCommit(AuthorStats(commits, k - 1),
                   normalizeName(commits[k].author), commits[k])
\* authorStats after the first k commits, keyed by the author (App.jsx)
RECURSIVE AuthorStatsApp(_, _)
AuthorStatsApp(commits, k) ==
    IF k = 0 THEN <<>>
    ELSE AddCommit(AuthorStatsApp(commits, k - 1),
                   RawName(commits[k].author), commits[k])
\* totalLinesChanged after the first k commits
RECURSIVE TotalLinesChanged(_, _)
TotalLinesChanged(commits, k) ==
    IF k = 0 THEN 0
    ELSE TotalLinesChanged(commits, k - 1)
         + commits[k].additions + commits[k].deletions

\* 10 to the power of digits
RECURSIVE Pow10(_)
Pow10(digits) == IF digits = 0 THEN 1 ELSE 10 * Pow10(digits - 1)
\* (num / den).toFixed(digits), for num >= 0: <<n>> stands for the decimal
\* n / 10^digits, <<>> for 'NaN' and 'Infinity'
ToFixed(num, den, digits) ==
    IF den = 0 THEN <<>>
    ELSE <<(2 * num * Pow10(digits) + den) \div (2 * den)>>
\* changePercent, lines 97-99
ChangePercent(linesChanged, totalLinesChanged) ==
    IF totalLinesChanged > 0
    THEN ToFixed(linesChanged * 100, totalLinesChanged, 1)
    ELSE <<0>>

\* the entry of an author, lines 88-101
AuthorEntry(stats, totalCommits, totalLinesChanged) ==
    LET linesChanged == stats.additions + stats.deletions
    IN  [author |-> stats.author,
         commits |-> stats.commits,
         additions |-> stats.additions,
         deletions |-> stats.deletions,
         avgLinesChanged |-> ToFixed(linesChanged, stats.commits, 2),
         commitPercent |-> ToFixed(stats.commits * 100, totalCommits, 1),
         changePercent |-> ChangePercent(linesChanged, totalLinesChanged)]
\* the entry of an author in App.jsx, lines 73-79: the author is the key
AuthorEntryApp(stats) ==
    [author |-> stats.key,
     commits |-> stats.commits,
     additions |-> stats.additions,
     deletions |-> stats.deletions,
     avgLinesChanged |->
         ToFixed(stats.additions + stats.deletions, stats.commits, 2)]

\* authors.sort((a, b) => b.commits - a.commits), a stable sort
RECURSIVE SortInsertCommits(_, _)
SortInsertCommits(sorted, a) ==
    IF sorted = <<>> THEN <<a>>
    ELSE IF sorted[Len(sorted)].commits >= a.commits
    THEN Append(sorted, a)
    ELSE Append(SortInsertCommits(SubSeq(sorted, 1, Len(sorted) - 1), a),
                sorted[Len(sorted)])
RECURSIVE SortByCommits(_)
SortByCommits(authors) ==
    IF authors = <<>> THEN <<>>
    ELSE SortInsertCommits(SortByCommits(SubSeq(authors, 1, Len(authors) - 1)),
                           authors[Len(authors)])

\* computeStats, lines 60-106 of the later version
computeStats(commits) ==
    IF Len(commits) = 0 THEN [totalCommits |-> 0, authors |-> <<>>]
    ELSE LET totalCommits == Len(commits)
             authorStats == AuthorStats(commits, Len(commits))
             totalLinesChanged == TotalLinesChanged(commits, Len(commits))
         IN  [totalCommits |-> totalCommits,
              authors |->
                  SortByCommits(
                      [k \in DOMAIN authorStats |->
                          AuthorEntry(authorStats[k], totalCommits,
                                      totalLinesChanged)])]
\* computeStats, lines 56-82 of App.jsx
computeStatsApp(commits) ==
    LET authorStats == AuthorStatsApp(commits, Len(commits))
    IN  [totalCommits |-> Len(commits),
         authors |->
             SortByCommits([k \in DOMAIN authorStats |->
                               AuthorEntryApp(authorStats[k])])]

\* a client that has received a list of commits with their authors and has
\* not handled it yet
InitStats ==
    /\ trackedRepo = NoRepo
    /\ db = EmptyBag
    /\ remote = (KeyAB :> HistAB) @@ (KeyCD :> HistCD)
    /\ req = [r \in ReqIds |-> ReqIdle]
    /\ poll = [p \in PollIds |-> PollIdle]
    /\ faults = 0
    /\ \E list \in StatLists, now \in Nows :
           ui = [UiIdle EXCEPT !.commitList = list, !.now = now]

\* pollCommits, lines 42-58 of the later version, from the response on
PollCommits ==
    /\ ui.shown = "none"
    /\ LET sorted == SortByTimestamp(ui.commitList)
       IN  ui' = [ui EXCEPT
                     !.commits = sorted,
                     !.chartData = generateChartData(ui.zone, sorted),
                     !.totalLines = setTotalLines(ui.totalLines, sorted),
                     !.repoStats = <<computeStats(sorted)>>,
                     !.shown = "range"]
    /\ UNCHANGED vars

\* pollCommits, lines 41-54 of App.jsx, from the response on
PollCommitsApp ==
    /\ ui.shown = "none"
    /\ LET sorted == SortByTimestamp(ui.commitList)
       IN  ui' = [ui EXCEPT
                     !.commits = sorted,
                     !.chartData =
                         generateChartDataApp(ui.zone, ui.now, sorted),
                     !.repoStats = <<computeStatsApp(sorted)>>,
                     !.shown = "today"]
    /\ UNCHANGED vars

NextStats == PollCommits \/ PollCommitsApp

SpecStats == InitStats /\ [][NextStats]_<<vars, ui>>

(* ====================== properties of the code ======================== *)
\* the request r took the step (a push only marks it)
Stepped(r) == [req[r] EXCEPT !.moved = req'[r].moved] # req'[r]
\* r has been answered with the given status
Answered(r, status) == req[r].pc = "done" /\ req[r].status = status
\* the errors the handler's own try/catch sees (lines 51-92)
HandlerErrs == {"list", "exists", "page"}
Range(f) == { f[k] : k \in DOMAIN f }
\* the table with one more row
Plus(table, row) == table (+) SetToBag({row})
\* the step in which r leaves its probe loop and selects its branch
Decides(r) == req[r].mode = "none" /\ req'[r].mode # "none"
\* the summaries the probe of r returned
Probed(r) == Len(req[r].latestCommits)
\* how many of them the membership checks found stored, counted in the step
\* that answers the last check
Present(r) ==
    Probed(r) - Len(req[r].newShas)
    - (IF req[r].pc = "exists"
          /\ ~FindUnique(db, req[r].latestCommits[req[r].i])
       THEN 1 ELSE 0)

(* ---- C1 ---- *)
\* C1, the rejecting step: a request that arrives while a target K is
\* tracked and names another key is answered 400 in its first step, before
\* any await, and leaves the table and the slot as they were
C1_RejectStep ==
    \A r \in ReqIds, body \in Bodies :
        ( /\ req[r].pc = "idle"
          /\ Stepped(r)
          /\ req'[r].owner = body.owner /\ req'[r].repo = body.repo
          /\ trackedRepo # NoRepo
          /\ FullRepoOf(body.owner, body.repo) # trackedRepo )
        => /\ req'[r].pc = "done" /\ req'[r].status = 400
           /\ db' = db
           /\ trackedRepo' = trackedRepo
\* C1, later states: such a request stays answered 400; it never selected a
\* branch, never had a call fail and never attempted an insert
C1_Rejected ==
    \A r \in ReqIds :
        ( /\ req[r].pc # "idle"
          /\ req[r].startSlot # NoRepo
          /\ FullRepoOf(req[r].owner, req[r].repo) # req[r].startSlot )
        => /\ Answered(r, 400)
           /\ req[r].mode = "none" /\ req[r].errs = {} /\ ~req[r].taken
\* C1: whenever a target K is tracked, a /track-repo request for another key
\* is rejected with an error, fetches nothing, inserts nothing and leaves
\* the slot equal to K
C1_SingleTarget == [](C1_Rejected) /\ [][C1_RejectStep]_vars
\* C1 happens: c/d was requested while a/b was tracked, and was refused
C1_Witness ==
    \E r \in ReqIds :
        /\ Answered(r, 400)
        /\ req[r].startSlot = KeyAB
        /\ req[r].fullRepo = KeyCD
        /\ trackedRepo = KeyAB

(* ---- C2 ---- *)
\* C2: the slot is write-once: once it holds a key K it is never unset and
\* never changes to another key, whatever the interleaving of requests and
\* poll ticks
C2_WriteOnce == [][trackedRepo # NoRepo => trackedRepo' = trackedRepo]_vars

(* ---- C3 ---- *)
\* C3, the selecting step: with a probe of 5 summaries the mode is backfill
\* when none of the 5 was found in the table (and page 1 is fetched), topup
\* when 1 to 4 were (and the detail of an absent probed sha is fetched),
\* noop when all 5 were (and the request ends with the table as it was)
C3_DecideStep ==
    \A r \in ReqIds :
        Decides(r) /\ Probed(r) = 5 =>
            /\ req'[r].mode = "backfill" <=> Present(r) = 0
            /\ req'[r].mode = "topup" <=> Present(r) \in 1..4
            /\ req'[r].mode = "noop" <=> Present(r) = 5
            /\ req'[r].mode = "backfill" =>
                   req'[r].pc = "page" /\ req'[r].page = 1
            /\ req'[r].mode = "topup" =>
                   /\ req'[r].pc = "detail"
                   /\ req'[r].sha \in Range(req'[r].newShas)
                   /\ Len(req'[r].newShas) = 5 - Present(r)
            /\ req'[r].mode = "noop" => req'[r].pc = "done" /\ db' = db
\* C3, the branches at work: a topup never fetches a page and a noop is
\* over when it is selected
C3_Mode ==
    \A r \in ReqIds :
        /\ req[r].mode = "topup" =>
               req[r].pc \in {"detail", "done"} /\ req[r].page = 0
        /\ req[r].mode = "noop" => req[r].pc = "done"
\* C3, the inserts of a topup: only shas the probe found absent are stored
C3_TopupStep ==
    \A r \in ReqIds :
        req[r].mode = "topup" /\ Stepped(r) /\ db' # db =>
            \E sha \in Range(req[r].newShas) :
                db' = Plus(db, Row(sha, req[r].fullRepo))
\* C3: probe-driven mode selection: 0 of the 5 probed shas stored selects
\* backfill (paginated), 1 to 4 selects topup (only the absent probed shas
\* are inserted, no pagination), 5 selects noop (no detail fetch, no insert)
C3_ModeSelection == [](C3_Mode) /\ [][C3_DecideStep /\ C3_TopupStep]_vars
\* C3 happens: the first request found none of its 5 probed shas and
\* backfilled; after a push the second one found 4 of its 5 and is topping up
C3_Witness ==
    /\ Answered(1, 200) /\ req[1].mode = "backfill"
    /\ req[2].mode = "topup" /\ req[2].pc = "detail"
    /\ Len(req[2].latestCommits) = 5 /\ Len(req[2].newShas) = 1
    /\ req[2].startSlot = KeyAB
\* C3 happens, noop: a request for a/b found all of its 5 probed shas
C3_WitnessNoop ==
    \E r \in ReqIds :
        /\ Answered(r, 200) /\ req[r].mode = "noop"
        /\ req[r].fullRepo = KeyAB /\ req[r].errs = {}
\* C3 happens, backfill: none of the 5 probed shas was stored, page 1 is
\* being fetched
C3_WitnessBackfill ==
    \E r \in ReqIds :
        /\ req[r].mode = "backfill" /\ req[r].pc = "page" /\ req[r].page = 1
        /\ Len(req[r].latestCommits) = 5 /\ Len(req[r].newShas) = 5

(* ---- C4 ---- *)
\* C4: a probe that returns fewer than 5 summaries (at least one), none of
\* them in the table, still selects the backfill branch
C4_ShortHistoryBackfill ==
    \A r \in ReqIds :
        ( /\ req[r].mode # "none" /\ req[r].pc # "done"
          /\ Len(req[r].latestCommits) \in 1..(ProbeSize - 1)
          /\ Len(req[r].newShas) = Len(req[r].latestCommits) )
        => req[r].mode = "backfill"

(* ---- C5 ---- *)
\* C5 as stated: a request in which any fetch or store error occurred (the
\* detail fetch and the insert included) is not answered with success and
\* so does not mark its target tracked
C5_AnyErrorFails ==
    \A r \in ReqIds : req[r].errs # {} => ~Answered(r, 200)
\* C5 amended, the answer: an error of the probe, of a membership check or
\* of a page fetch ends the request with status 500, and only such an error
\* does
C5_Failed ==
    \A r \in ReqIds :
        /\ req[r].errs \cap HandlerErrs # {} => Answered(r, 500)
        /\ Answered(r, 500) => req[r].errs \cap HandlerErrs # {}
\* C5 amended, the slot: no step of a request other than its success writes
\* the slot
C5_FailStep ==
    \A r \in ReqIds :
        Stepped(r) /\ ~(req'[r].pc = "done" /\ req'[r].status = 200)
            => trackedRepo' = trackedRepo
\* C5 amended: an error of the probe list fetch, of a membership check or of
\* a backfill page fetch makes the request return an error, and that request
\* never writes the tracked slot; an error inside insertCommitDetails (the
\* detail fetch or the insert) is swallowed there and fails nothing
C5_HandlerErrorNotTracked == [](C5_Failed) /\ [][C5_FailStep]_vars
\* C5 happens: a backfill failed on a page fetch, was answered 500, and
\* nothing is tracked
C5_Witness ==
    \E r \in ReqIds :
        /\ Answered(r, 500)
        /\ req[r].errs = {"page"}
        /\ req[r].mode = "backfill"
        /\ trackedRepo = NoRepo

(* ---- C6 ---- *)
\* C6, the acknowledging step: the slot is written, and 200 is answered,
\* only by the step that ends the selected branch (the last insert of a
\* topup, the last commit of the last page of a backfill, the last check of a
\* noop); a request for the key that was tracked when it arrived writes that
\* same key
C6_TrackStep ==
    \A r \in ReqIds :
        Stepped(r) /\ (trackedRepo' # trackedRepo \/ req'[r].status = 200) =>
            /\ req'[r].pc = "done" /\ req'[r].status = 200
            /\ req'[r].mode # "none"
            /\ trackedRepo' = req[r].fullRepo
            /\ req[r].ret = "topup" => req[r].i = Len(req[r].newShas)
            /\ req[r].pc \in {"pexists", "detail"} /\ req[r].ret # "topup" =>
                   /\ req[r].i = Len(req[r].commits)
                   /\ Len(req[r].commits) < perPage
            /\ req[r].startSlot = req[r].fullRepo =>
                   trackedRepo' = req[r].startSlot
\* C6, the states: a poll run works on a key only after a request for that
\* key was answered 200; while a backfill runs and nothing is tracked a tick
\* can still fire, as a no-op; a request for the key tracked at its arrival
\* succeeds unless the handler caught an error
C6_PollAfterAck ==
    /\ \A p \in PollIds :
           poll[p].pc # "idle" =>
               \E r \in ReqIds :
                   Answered(r, 200) /\ req[r].fullRepo = poll[p].key0
    /\ (trackedRepo = NoRepo /\ \E r \in ReqIds :
            req[r].mode = "backfill" /\ req[r].pc # "done")
           => ENABLED PollTickIdle
    /\ \A r \in ReqIds :
           ( /\ req[r].pc = "done" /\ req[r].status # 400
             /\ req[r].startSlot = req[r].fullRepo
             /\ req[r].errs \cap HandlerErrs = {} )
           => Answered(r, 200)
\* C6: the target is recorded as tracked and success is answered only after
\* the selected reconciliation path has finished, so no poll run works on a
\* target before a reconciliation of it completed, while ticks keep firing
\* as no-ops during a backfill; a request for the already tracked target
\* succeeds and leaves the slot as it found it
C6_TrackedAfterReconcile == [](C6_PollAfterAck) /\ [][C6_TrackStep]_vars
\* C6 happens: a/b was backfilled and acknowledged, a second request for a/b
\* arrived while it was tracked and succeeded, and a poll run is at work
C6_Witness ==
    /\ Answered(1, 200) /\ req[1].mode = "backfill"
    /\ Answered(2, 200) /\ req[2].startSlot = KeyAB /\ req[2].fullRepo = KeyAB
    /\ trackedRepo = KeyAB
    /\ \E p \in PollIds : poll[p].pc # "idle" /\ poll[p].key0 = KeyAB

(* ---- C7 ---- *)
\* C7, the table: every row is stored once and no two rows hold one sha
C7_Unique ==
    \A a, b \in BagToSet(db) :
        CopiesIn(a, db) = 1 /\ (a.sha = b.sha => a = b)
\* C7, the refused insert: an insert of a sha that is already stored leaves
\* the table as it is, and the run goes on without an error
C7_TakenStep ==
    /\ \A r \in ReqIds :
           ( /\ req[r].pc = "detail" /\ Stepped(r) /\ faults' = faults
             /\ FindUnique(db, req[r].sha) )
           => db' = db /\ req'[r].errs = req[r].errs /\ req'[r].status # 500
    /\ \A p \in PollIds :
           ( /\ poll[p].pc = "detail" /\ poll'[p] # poll[p]
             /\ faults' = faults /\ FindUnique(db, poll[p].sha) )
           => db' = db /\ poll'[p] = PollNext(poll[p])
\* C7: in every reachable state the table holds at most one row per sha,
\* also when two runs both saw a sha absent before either stored it; the
\* later insert changes nothing and is not a failure of its run
C7_ShaUnique == [](C7_Unique) /\ [][C7_TakenStep]_vars
\* C7 happens: a request saw a sha absent, another run stored it first, the
\* request's insert was refused, and the request still succeeded
C7_Witness ==
    \E r \in ReqIds :
        /\ Answered(r, 200)
        /\ req[r].taken
        /\ req[r].errs = {}
        /\ C7_Unique

(* ---- C8 ---- *)
\* C8: poll runs are not re-entrant: two runs for one target are never in
\* flight together, so their fetches and inserts never interleave
C8_PollNotReentrant ==
    \A p, q \in PollIds :
        ( /\ poll[p].pc # "idle" /\ poll[q].pc # "idle"
          /\ poll[p].owner = poll[q].owner /\ poll[p].repo = poll[q].repo )
        => p = q

(* ---- C9 ---- *)
\* C9: a poll run and a /track-repo reconciliation for the same target are
\* never both inside their membership-check/insert phases
C9_PollTrackExclusion ==
    \A r \in ReqIds, p \in PollIds :
        ~( /\ req[r].pc \in {"exists", "pexists", "detail"}
           /\ poll[p].pc \in {"exists", "detail"}
           /\ req[r].owner = poll[p].owner /\ req[r].repo = poll[p].repo )

(* ---- C10 ---- *)
\* C10, completeness: the step that ends a backfill in which nothing failed
\* and during which the remote history stood still leaves every sha of that
\* history stored
C10_CompleteStep ==
    \A r \in ReqIds :
        ( /\ req[r].mode = "backfill" /\ Stepped(r)
          /\ req'[r].pc = "done" /\ req'[r].status = 200
          /\ req'[r].errs = {} /\ ~req[r].moved )
        => \A sha \in Range(Hist(req[r].owner, req[r].repo)) :
                FindUnique(db', sha)
\* C10, attribution: a step of a backfill that changes the table adds one
\* row, and its repo is owner/name of the request
C10_KeyStep ==
    \A r \in ReqIds :
        req[r].mode = "backfill" /\ Stepped(r) /\ db' # db =>
            db' = Plus(db, Row(req[r].sha,
                               req[r].owner \o <<"/">> \o req[r].repo))
\* C10: a backfill against a static finite history in which no fetch or
\* insert fails ends with every sha of the history stored, and every row it
\* inserted carries the repositoryKey owner/name of the request
C10_BackfillComplete == [][C10_CompleteStep /\ C10_KeyStep]_vars
\* C10 happens: a/b was backfilled, alone and without an error, over two
\* full pages and an empty third one, and the table holds the six commits of
\* a/b under the key a/b
C10_Witness ==
    /\ Answered(1, 200) /\ req[1].mode = "backfill" /\ req[1].errs = {}
    /\ req[1].fullRepo = KeyAB /\ ~req[1].taken
    /\ req[2].pc = "idle"
    /\ remote[KeyAB] = HistAB
    /\ db = SetToBag({ Row(sha, KeyAB) : sha \in Range(HistAB) })

(* ---- C11 ---- *)
\* the rows of the table that hold a sha of the history hist
RowsOf(table, hist) == { row \in BagToSet(table) : row.sha \in Range(hist) }
\* the step that ends a backfill of r in which nothing failed, while the
\* remote history stood still
EndsBackfill(r) ==
    /\ req[r].mode = "backfill" /\ Stepped(r)
    /\ req'[r].pc = "done" /\ req'[r].status = 200
    /\ req'[r].errs = {} /\ ~req[r].moved
\* the history r walks holds k full pages, k >= 1
FullPages(r, k) == k >= 1 /\ Len(Hist(req[r].owner, req[r].repo)) = k * perPage
\* C11 as stated: a backfill of a history of exactly k full pages ends
\* having fetched exactly k pages (the last fetch is the one of page k) and
\* with k*perPage records stored
C11_ExactlyKPages ==
    [][\A r \in ReqIds, k \in 1..3 :
          EndsBackfill(r) /\ FullPages(r, k) =>
              /\ req[r].page = k
              /\ Cardinality(RowsOf(db', Hist(req[r].owner, req[r].repo)))
                     = k * perPage]_vars
\* C11 amended: a backfill of a history of exactly k full pages ends in the
\* step that answers the fetch of page k+1, which is empty (k+1 page fetches,
\* k of them non-empty), and leaves exactly k*perPage records stored for
\* that history
C11_ExactMultiple ==
    [][\A r \in ReqIds, k \in 1..3 :
          EndsBackfill(r) /\ FullPages(r, k) =>
              /\ req[r].pc = "page" /\ req[r].page = k + 1
              /\ ListCommits(Hist(req[r].owner, req[r].repo), perPage,
                             req[r].page) = <<>>
              /\ Cardinality(RowsOf(db', Hist(req[r].owner, req[r].repo)))
                     = k * perPage
              /\ C7_Unique']_vars
\* C11 happens: the six commits of a/b (two full pages) are stored and the
\* backfill has issued the fetch of page 3
C11_Witness ==
    /\ req[1].mode = "backfill" /\ req[1].pc = "page" /\ req[1].page = 3
    /\ req[1].errs = {} /\ ~req[1].moved /\ ~req[1].taken
    /\ req[2].pc = "idle"
    /\ Len(remote[KeyAB]) = 2 * perPage
    /\ BagCardinality(db) = 2 * perPage

(* ---- C12 ---- *)
\* C12: a request that repeats, after its failure, a request for the same
\* target, and in which nothing fails while the remote history stands still,
\* ends with every sha of that history stored, as a first attempt without a
\* failure does
C12_RetryIdempotent ==
    [][\A r \in ReqIds :
          ( /\ req[r].retry /\ Stepped(r)
            /\ req'[r].pc = "done" /\ req'[r].status = 200
            /\ req'[r].errs = {} /\ ~req[r].moved )
          => \A sha \in Range(Hist(req[r].owner, req[r].repo)) :
                 FindUnique(db', sha)]_vars

(* ---- C13 ---- *)
\* C13, the states: while nothing is tracked no poll run is in flight, so
\* no fetch, membership check or insert of the poller is pending
C13_NoRun == trackedRepo = NoRepo => \A p \in PollIds : poll[p] = PollIdle
\* C13, the steps: while nothing is tracked every step that is not a step of
\* a request or a push (a tick of the poller) starts no run and leaves the
\* table, the slot and the runs as they were
C13_TickStep ==
    trackedRepo = NoRepo =>
        /\ \A p \in PollIds : poll'[p] = PollIdle
        /\ req' = req /\ remote' = remote =>
               UNCHANGED <<db, trackedRepo, poll, faults>>
\* C13: a poll tick that fires while no target is tracked is a no-op: no
\* fetch, no membership check, no insert, table and slot unchanged
C13_IdleTickNoop == [](C13_NoRun) /\ [][C13_TickStep]_vars
\* C13 happens: a tracking request failed after it stored records, nothing
\* is tracked, and a tick fires without starting a run
C13_Witness ==
    /\ trackedRepo = NoRepo
    /\ ENABLED PollTickIdle
    /\ \A p \in PollIds : poll[p] = PollIdle
    /\ db # EmptyBag
    /\ \E r \in ReqIds : Answered(r, 500)

(* ---- C14 ---- *)
\* the poll run p took the step
PollStepped(p) == poll'[p] # poll[p]
\* C14, the runs: a run is awaiting its list fetch, a membership check or
\* an insert, never a page fetch; its window holds at most 5 summaries and
\* the sha it inserts is the one of the window it has just checked
C14_Window ==
    \A p \in PollIds :
        /\ poll[p].pc \in {"idle", "list", "exists", "detail"}
        /\ Len(poll[p].data) <= 5
        /\ poll[p].pc = "list" => poll[p].data = <<>>
        /\ poll[p].pc \in {"exists", "detail"} =>
               poll[p].i \in 1..Len(poll[p].data)
        /\ poll[p].pc = "detail" => poll[p].sha = poll[p].data[poll[p].i]
\* C14, the steps: the list fetch is issued once, when the run starts, and
\* asks for the first 5 summaries; a sha found stored is skipped; a step of
\* a run that changes the table adds one row, for a sha of the window that
\* was absent
C14_RunStep ==
    \A p \in PollIds :
        /\ PollStepped(p) /\ poll'[p].pc = "list" => poll[p].pc = "idle"
        /\ PollStepped(p) /\ poll[p].pc = "list" /\ poll'[p].pc # "idle" =>
               /\ poll'[p].pc = "exists"
               /\ poll'[p].data =
                      ListCommits(Hist(poll[p].owner, poll[p].repo), 5, 1)
        /\ ( /\ PollStepped(p) /\ poll[p].pc = "exists" /\ faults' = faults
             /\ FindUnique(db, poll[p].data[poll[p].i]) )
           => poll'[p].pc # "detail" /\ db' = db
        /\ PollStepped(p) /\ db' # db =>
               /\ poll[p].pc = "detail"
               /\ poll[p].sha \in Range(poll[p].data)
               /\ ~FindUnique(db, poll[p].sha)
               /\ db' = Plus(db, Row(poll[p].sha, poll[p].fullRepo))
\* C14: the poller never backfills: a run issues one list fetch of the
\* 5-commit window and no page fetch, inserts at most the shas of the window
\* that are absent from the table, and skips the ones that are stored
C14_PollWindowOnly == [](C14_Window) /\ [][C14_RunStep]_vars
\* C14 happens: after the backfill of a/b a commit was pushed; a run fetched
\* its window of 5 and is checking the second sha of the window, the pushed
\* commit is stored
C14_Witness ==
    \E p \in PollIds :
        /\ poll[p].pc = "exists" /\ poll[p].i = 2
        /\ Len(poll[p].data) = 5
        /\ poll[p].data[1] = Len(HistAB) + 1
        /\ Row(poll[p].data[1], KeyAB) \in BagToSet(db)
        /\ \A q \in PollIds : q # p => poll[q].pc = "idle"
        /\ Answered(1, 200) /\ req[1].startSlot = NoRepo
        /\ req[1].mode = "backfill" /\ req[2].pc = "idle"
        /\ BagCardinality(db) = Len(HistAB) + 1

(* ---- C15 ---- *)
\* a timer tick starts a poll run
StartsRun == \E p \in PollIds : PollTick(p)
\* C15, the failing step: a throw in a poll run leaves the slot, the table
\* and every request as they were; after a failed list fetch or membership
\* check the run is over, after a failed detail fetch or insert it goes on
\* with the next commit of its window
C15_FailStep ==
    \A p \in PollIds :
        PollStepped(p) /\ faults' # faults =>
            /\ trackedRepo' = trackedRepo
            /\ db' = db
            /\ req' = req
            /\ \A q \in PollIds : q # p => poll'[q] = poll[q]
            /\ poll[p].pc \in {"list", "exists"} => poll'[p] = PollIdle
            /\ poll[p].pc = "detail" => poll'[p] = PollNext(poll[p])
\* C15, the later ticks: while a target is tracked a tick starts a run,
\* whatever failed before (as long as the bound on the tasks in flight
\* leaves room for one)
C15_TicksGoOn ==
    trackedRepo # NoRepo /\ InFlight < MaxInFlight => ENABLED StartsRun
\* C15: a failure inside a poll run is not fatal: it stays inside the tick,
\* leaves the slot and the stored records alone, and later ticks still
\* start runs
C15_PollFailureNonFatal == [](C15_TicksGoOn) /\ [][C15_FailStep]_vars
\* C15 happens: a poll run stored the pushed commit and then failed (no
\* request saw an error); a/b is still tracked, the commit is still stored
\* and a later tick has started a run
C15_Witness ==
    /\ faults = 1
    /\ \A r \in ReqIds : req[r].errs = {} /\ req[r].pc \in {"idle", "done"}
    /\ trackedRepo = KeyAB
    /\ FindUnique(db, Len(HistAB) + 1)
    /\ \E p \in PollIds : poll[p].pc = "list"

(* ---- C16 ---- *)
\* C16, the failing step: when the detail fetch or the insert of a commit
\* throws in a request, the table stays as it is (the commit is skipped,
\* the rows stored before are kept), the request is not failed, and it goes
\* on with the next sha of a top-up, the next commit of the page, the next
\* page after a full page, or its success after the last commit
C16_SkipStep ==
    \A r \in ReqIds :
        ( req[r].pc = "detail" /\ Stepped(r) /\ faults' # faults ) =>
            /\ db' = db
            /\ req'[r].status # 500
            /\ req'[r].errs \in { req[r].errs \cup {w} : w \in {"detail", "create"} }
            /\ req[r].ret = "topup" /\ req[r].i < Len(req[r].newShas) =>
                   /\ req'[r].pc = "detail" /\ req'[r].i = req[r].i + 1
                   /\ req'[r].sha = req[r].newShas[req[r].i + 1]
            /\ req[r].ret = "topup" /\ req[r].i = Len(req[r].newShas) =>
                   req'[r].pc = "done" /\ req'[r].status = 200
            /\ req[r].ret = "backfill" /\ req[r].i < Len(req[r].commits) =>
                   /\ req'[r].pc = "pexists" /\ req'[r].i = req[r].i + 1
                   /\ req'[r].commits = req[r].commits
            /\ ( /\ req[r].ret = "backfill"
                 /\ req[r].i = Len(req[r].commits)
                 /\ Len(req[r].commits) = perPage ) =>
                   req'[r].pc = "page" /\ req'[r].page = req[r].page + 1
            /\ ( /\ req[r].ret = "backfill"
                 /\ req[r].i = Len(req[r].commits)
                 /\ Len(req[r].commits) < perPage ) =>
                   req'[r].pc = "done" /\ req'[r].status = 200
\* C16, the states: a request whose only errors were thrown inside
\* insertCommitDetails is never answered with a failure
C16_NotFailed ==
    \A r \in ReqIds :
        req[r].errs # {} /\ req[r].errs \subseteq {"detail", "create"} =>
            req[r].status # 500
\* C16: per-commit failure isolation during backfill and top-up: the commit
\* whose detail fetch or insert fails is skipped, the commits after it are
\* still processed and the inserts before it are kept
C16_PerCommitIsolation == [](C16_NotFailed) /\ [][C16_SkipStep]_vars
\* C16 happens: the backfill of a/b lost the detail fetch of its second
\* commit, stored the first and the four after it, and succeeded
C16_Witness ==
    /\ Answered(1, 200) /\ req[1].mode = "backfill"
    /\ req[1].errs = {"detail"} /\ ~req[1].taken
    /\ req[2].pc = "idle"
    /\ remote[KeyAB] = HistAB
    /\ Shas(db) = Range(HistAB) \ {HistAB[2]}

(* ---- C17 ---- *)
\* C17, the steps: every row of the table is still in it, as often, after
\* any step, and a row stored after the step for a sha that was stored
\* before it is the row that was stored before (same repo)
C17_KeepStep ==
    \A row \in BagToSet(db) :
        /\ CopiesIn(row, db') >= CopiesIn(row, db)
        /\ \A row2 \in BagToSet(db') : row2.sha = row.sha => row2 = row
\* C17: the table is append-only: no request, poll run or read of /commits
\* updates or deletes a row; the row of a sha, its repo in particular, is
\* the same in every later state
C17_AppendOnly == [][C17_KeepStep]_vars
\* C17 happens: a commit that a/b and c/d share was stored for a/b, the
\* request for c/d then tried to insert it, and its row still says a/b
C17_Witness ==
    \E r \in ReqIds :
        /\ req[r].fullRepo = KeyCD /\ req[r].taken
        /\ Row(1, KeyAB) \in BagToSet(db)
        /\ Row(2, KeyAB) \in BagToSet(db)
        /\ Row(HistCD[1], KeyCD) \in BagToSet(db)

(* ---- C18 ---- *)
\* the shas a/b can ever hold
AllShas == 1..(Len(HistAB) + MaxBurst)
\* C18: while a/b is tracked, with ticks that keep firing and calls that
\* succeed, every commit of the remote history of a/b, however many were
\* pushed between two ticks, is eventually stored
C18_PollLiveness ==
    \A sha \in AllShas :
        (sha \in Range(remote[KeyAB])) ~> FindUnique(db, sha)
\* the state the poller starts from is one the backend reaches
C18_StartReached == InitLive

(* ---- C19 ---- *)
\* the UTC days of the commits of the list
CommitDays(list) == { DateKey(list[k].timestamp) : k \in DOMAIN list }
\* C19: for a list that is not empty the chart has exactly one point for
\* every day from the day of the earliest commit to the day of the latest
\* one, in ascending order, and no other point (a point is of the day its
\* name shows)
C19_DailyRange ==
    ui.shown # "none" /\ ui.commitList # <<>> =>
        LET days == CommitDays(ui.commitList)
            first == CHOOSE d \in days : \A e \in days : d <= e
            last == CHOOSE d \in days : \A e \in days : e <= d
        IN  /\ Len(ui.chartData) = last - first + 1
            /\ \A k \in DOMAIN ui.chartData :
                   ui.chartData[k].name = first + k - 1

(* ---- C20 ---- *)
\* the sum of additions - deletions over the commits of the list dated on
\* or before the day
RECURSIVE LinesUpTo(_, _)
LinesUpTo(list, day) ==
    IF list = <<>> THEN 0
    ELSE LinesUpTo(SubSeq(list, 2, Len(list)), day)
         + (IF DateKey(list[1].timestamp) <= day
            THEN list[1].additions - list[1].deletions ELSE 0)
\* C20: the value of the point of a day is the sum of additions - deletions
\* over all commits dated on or before that day (so a day without commits
\* repeats the value before it and a day with several commits shows the
\* total after the last of them)
C20_CarryForward ==
    ui.shown # "none" =>
        \A k \in DOMAIN ui.chartData :
            ui.chartData[k].lines =
                LinesUpTo(ui.commitList, ui.chartData[k].name)
\* the case of the specification, in UTC: +10 on day 1, +5 on day 3 gives
\* (day 1, 10), (day 2, 10), (day 3, 15)
C20_Example ==
    ( /\ ui.shown = "range"
      /\ ui.zone.before = 0 /\ ui.zone.after = 0
      /\ ui.commitList =
             << [timestamp |-> 34, additions |-> 10, deletions |-> 0],
                [timestamp |-> 82, additions |-> 5, deletions |-> 0] >> )
    => ui.chartData = << [name |-> 1, lines |-> 10],
                         [name |-> 2, lines |-> 10],
                         [name |-> 3, lines |-> 15] >>

(* ---- C21 ---- *)
\* the object handed to setRepoStats
Stats == ui.repoStats[1]
\* the commits of the sorted list whose author normalizes to key
Group(key) ==
    SelectSeq(ui.commits, LAMBDA c : normalizeName(c.author) = key)
\* the normalized author names of the sorted list
Keys == { normalizeName(ui.commits[k].author) : k \in DOMAIN ui.commits }
\* the entries of the summary whose display name normalizes to key
EntriesOf(key) ==
    { k \in DOMAIN Stats.authors :
          normalizeName(Stats.authors[k].author) = key }
RECURSIVE SumAdditions(_)
SumAdditions(commits) ==
    IF commits = <<>> THEN 0
    ELSE commits[1].additions + SumAdditions(Tail(commits))
RECURSIVE SumDeletions(_)
SumDeletions(commits) ==
    IF commits = <<>> THEN 0
    ELSE commits[1].deletions + SumDeletions(Tail(commits))
\* the summary has exactly one entry for key: its counts are the sums over
\* the group and its name is the author of the group's first commit
Merged(key) ==
    /\ Cardinality(EntriesOf(key)) = 1
    /\ \A k \in EntriesOf(key) :
           /\ Stats.authors[k].commits = Len(Group(key))
           /\ Stats.authors[k].additions = SumAdditions(Group(key))
           /\ Stats.authors[k].deletions = SumDeletions(Group(key))
           /\ Stats.authors[k].author = Group(key)[1].author
\* C21: after pollCommits, the commits whose authors are equal after
\* removing whitespace and folding case are merged into exactly one entry of
\* the author summary, with the sums of the group as its commit count,
\* additions and deletions and with the raw author of the group's first
\* commit in the sorted list as its display name
C21_AuthorNormalization ==
    ui.shown # "none" => \A key \in Keys : Merged(key)
\* C21 for the later version and the names that spell no inherited property
\* of authorStats
C21_OwnNames ==
    ui.shown = "range" => \A key \in Keys \ ObjectPrototype : Merged(key)

(* ---- C22 ---- *)
\* the later version has handled the response
Aggregated == ui.shown = "range"
\* the sum of additions + deletions over the commits handled
LinesChanged == SumAdditions(ui.commits) + SumDeletions(ui.commits)
\* C22, the empty list: the aggregator leaves totalCommits = 0, no author,
\* no point of the daily series and totalLines = 0
C22_EmptyInput ==
    (Aggregated /\ ui.commits = <<>>)
    => /\ Stats.totalCommits = 0
       /\ Stats.authors = <<>>
       /\ ui.chartData = <<>>
       /\ ui.totalLines = <<0>>
\* C22, no line changed: for a list that is not empty and whose additions
\* and deletions are all 0, every author's share of the lines changed is
\* '0.0', and no figure of an entry is 'NaN'
C22_ShareZero ==
    (Aggregated /\ ui.commits # <<>> /\ LinesChanged = 0)
    => \A k \in DOMAIN Stats.authors :
           /\ Stats.authors[k].changePercent = <<0>>
           /\ Stats.authors[k].commitPercent # <<>>
           /\ Stats.authors[k].avgLinesChanged # <<>>
\* C22: the aggregator is safe against divisions by zero: the empty list
\* gives totalCommits = 0, an empty author list, an empty daily series and
\* totalLines = 0, and a list that changed no line gives every author a
\* share of zero
C22_ZeroDivisionSafety == C22_EmptyInput /\ C22_ShareZero
\* a list of commits that changed no line has been aggregated
C22_ShareZeroReached ==
    Aggregated /\ ui.commits # <<>> /\ LinesChanged = 0
    /\ Stats.authors # <<>>

(* ---- C23 ---- *)
\* the sum of additions - deletions over the commits received
NetLines == SumAdditions(ui.commitList) - SumDeletions(ui.commitList)
\* the later generateChartData has drawn a list that is not empty
Drawn == ui.shown = "range" /\ ui.commitList # <<>>
\* C23, the sum: totalLines is the sum of additions - deletions over all
\* commits, negative when the deletions dominate
C23_Sum == Drawn => ui.totalLines = <<NetLines>>
\* C23, the last point: the last point of the daily series has the value of
\* totalLines
C23_LastPoint ==
    Drawn => /\ ui.chartData # <<>>
             /\ ui.chartData[Len(ui.chartData)].lines = NetLines
\* C23: totalLines is the sum over all commits of additions - deletions,
\* without clamping, and for a list that is not empty it is the value of
\* the last point of the daily series
C23_TotalLines == C23_Sum /\ C23_LastPoint
\* C23, the last point in a zone whose clocks do not change
C23_LastPointFixedZone ==
    ui.zone.before = ui.zone.after => C23_LastPoint
\* a negative total has been drawn
C23_NegativeReached == Drawn /\ NetLines < 0 /\ ui.totalLines = <<NetLines>>

(* ---- C24 ---- *)
\* the remote history of the key of the row holds the sha of the row
Supplied(row, histories) == row.sha \in Range(histories[row.repo])
\* C24, the table: every row is stored under a key whose remote history
\* holds its sha
C24_RowsSupplied == \A row \in BagToSet(db) : Supplied(row, remote)
\* C24: every stored record's key is the owner/name whose remote endpoints
\* supplied its sha; a poll run stores every commit it fetches under the key
\* it split into owner and name at its start, whatever is written to the
\* slot while the run awaits a fetch
C24_Attribution ==
    [][/\ \A row \in BagToSet(db') : Supplied(row, remote')
       /\ \A p \in PollIds :
              (PollStepped(p) /\ db' # db) =>
                  db' = Plus(db, Row(poll[p].sha, poll[p].key0))]_vars

(* ---- C25 ---- *)
\* the step in which fetchFullHistory issues the fetch of a further page
FetchesNextPage == Stepped(1) /\ req'[1].pc = "page"
\* the step in which fetchFullHistory returns without a throw
Returns == Stepped(1) /\ req'[1].pc = "done" /\ req'[1].status = 200
\* C25, the pages: the first page fetched is page 1; a further page is
\* fetched only when the page before it was full, and it is the next one;
\* an empty page ends the loop; a run that returns has fetched exactly the
\* pages up to the first one that is empty or short
C25_PagesInOrder ==
    [][/\ FetchesNextPage =>
              /\ req'[1].page = req[1].page + 1
              /\ Len(req[1].commits) = perPage
       /\ (Stepped(1) /\ req[1].pc = "page"
             /\ ListCommits(remote[KeyAB], perPage, req[1].page) = <<>>)
          => req'[1].pc = "done"
       /\ Returns => req[1].page = Len(remote[KeyAB]) \div perPage + 1]_vars
\* C25, termination: fetchFullHistory returns or throws
C25_Terminates == <>(req[1].pc = "done")
\* C25: on every finite history, of any length, fetchFullHistory
\* terminates; it fetches the pages 1, 2, 3, ... in order and fetches no
\* page after the first one that is empty or shorter than perPage
C25_BackfillTermination == C25_PagesInOrder /\ C25_Terminates
\* a backfill has returned, without a throw, on a history of more than one
\* page whose length is no multiple of perPage, and all of it is stored
C25_Witness ==
    /\ req[1].pc = "done" /\ req[1].status = 200 /\ req[1].errs = {}
    /\ Len(remote[KeyAB]) > perPage
    /\ Len(remote[KeyAB]) % perPage # 0
    /\ BagCardinality(db) = Len(remote[KeyAB])
\* the backfill of the empty history has returned
C25_EmptyReached ==
    req[1].pc = "done" /\ req[1].status = 200 /\ remote[KeyAB] = <<>>

(* ---- C26 ---- *)
\* the list a request walks while it inserts: newShas in a top-up, the page
\* in a backfill
ReqList(q) == IF q.ret = "topup" THEN q.newShas ELSE q.commits
\* the request q goes on with position k of the same list, ends, or has
\* walked its page to the end and fetches the next one
GoesOn(q, q2, k) ==
    \/ q2.pc = "done"
    \/ /\ q2.pc = "page" /\ q.i = Len(q.commits)
       /\ q2.page = q.page + 1
    \/ /\ q2.pc \in {"pexists", "detail"} /\ q2.i = k
       /\ ReqList(q2) = ReqList(q)
\* C26 for a request: the table changes only in the step that ends the
\* insert attempt of position i of the list, by the row of that position;
\* the run then goes on with position i + 1; a membership check (backfill)
\* goes on with the insert of the same position, or, the sha being stored,
\* with position i + 1
ReqInOrder(r) ==
    /\ (Stepped(r) /\ req[r].pc # "detail") => db' = db
    /\ (Stepped(r) /\ req[r].pc = "detail") =>
           /\ req[r].sha = ReqList(req[r])[req[r].i]
           /\ db' \in {db, Plus(db, Row(req[r].sha, req[r].fullRepo))}
           /\ GoesOn(req[r], req'[r], req[r].i + 1)
    /\ (Stepped(r) /\ req[r].pc = "pexists") =>
           \/ /\ req'[r].pc = "detail" /\ req'[r].i = req[r].i
              /\ req'[r].sha = req[r].commits[req[r].i]
              /\ req'[r].commits = req[r].commits
              /\ ~FindUnique(db, req[r].commits[req[r].i])
           \/ /\ FindUnique(db, req[r].commits[req[r].i])
              /\ GoesOn(req[r], req'[r], req[r].i + 1)
           \/ req'[r].pc = "done" /\ req'[r].status = 500
\* C26 for a poll run: the same over the window of the run
PollInOrder(p) ==
    /\ (PollStepped(p) /\ poll[p].pc # "detail") => db' = db
    /\ (PollStepped(p) /\ poll[p].pc = "detail") =>
           /\ poll[p].sha = poll[p].data[poll[p].i]
           /\ db' \in {db, Plus(db, Row(poll[p].sha, poll[p].fullRepo))}
           /\ \/ poll'[p].pc = "idle" /\ poll[p].i = Len(poll[p].data)
              \/ /\ poll'[p].pc = "exists" /\ poll'[p].i = poll[p].i + 1
                 /\ poll'[p].data = poll[p].data
    /\ (PollStepped(p) /\ poll[p].pc = "exists") =>
           \/ /\ poll'[p].pc = "detail" /\ poll'[p].i = poll[p].i
              /\ poll'[p].sha = poll[p].data[poll[p].i]
              /\ poll'[p].data = poll[p].data
              /\ ~FindUnique(db, poll[p].data[poll[p].i])
           \/ /\ FindUnique(db, poll[p].data[poll[p].i])
              /\ \/ poll'[p].pc = "idle" /\ poll[p].i = Len(poll[p].data)
                 \/ /\ poll'[p].pc = "exists" /\ poll'[p].i = poll[p].i + 1
                    /\ poll'[p].data = poll[p].data
           \/ poll'[p].pc = "idle" /\ faults' # faults
\* C26: within a top-up, a backfill or a poll run the commits are inserted
\* in the order of the list or page they were found in, one at a time: the
\* membership check and the detail fetch of a commit start only when the
\* insert attempt of the commit before it is finished
C26_InsertionOrder ==
    [][/\ \A r \in ReqIds : ReqInOrder(r)
       /\ \A p \in PollIds : PollInOrder(p)]_vars
\* a backfill has inserted the first commit of its page and is inserting
\* the second, while a poll run is inserting the second commit of its window
C26_Witness ==
    /\ \E r \in ReqIds :
           req[r].pc = "detail" /\ req[r].ret = "backfill" /\ req[r].i = 2
           /\ FindUnique(db, req[r].commits[1])
    /\ \E p \in PollIds :
           poll[p].pc = "detail" /\ poll[p].i >= 2

(* ---- C27 ---- *)
\* the detail of the commit of the row carries no stats
WithoutStats(row) == DetailStats(row.sha) = <<>>
\* C27, the rows: additions and deletions of a row are natural numbers: the
\* counts of the detail, or 0 and 0 where the detail carries no stats
C27_RowStats(table) ==
    \A row \in BagToSet(table) :
        /\ row.additions \in Nat /\ row.deletions \in Nat
        /\ WithoutStats(row) => row.additions = 0 /\ row.deletions = 0
        /\ ~WithoutStats(row) =>
               /\ row.additions = DetailStats(row.sha)[1].additions
               /\ row.deletions = DetailStats(row.sha)[1].deletions
\* C27: every stored record has additions and deletions that are
\* non-negative integers; a commit whose detail carries no stats is stored
\* with 0 and 0, and it is stored: an insert attempt for a sha that is not
\* stored, in which no call throws, ends with the sha stored, with stats or
\* without
C27_StatsDefaults ==
    [][/\ C27_RowStats(db')
       /\ \A r \in ReqIds :
              (Stepped(r) /\ req[r].pc = "detail" /\ faults' = faults)
              => FindUnique(db', req[r].sha)
       /\ \A p \in PollIds :
              (PollStepped(p) /\ poll[p].pc = "detail" /\ faults' = faults)
              => FindUnique(db', poll[p].sha)]_vars
\* a commit without stats is stored with 0 and 0, next to one with stats
C27_Witness ==
    /\ \E row \in BagToSet(db) :
           WithoutStats(row) /\ row.additions = 0 /\ row.deletions = 0
    /\ \E row \in BagToSet(db) : ~WithoutStats(row) /\ row.additions > 0

(* ---- C28 ---- *)
\* the lists that hold the commits of list in another order
Reordered(list) ==
    { [k \in DOMAIN list |-> list[f[k]]] : f \in Permutations(DOMAIN list) }
\* C28: the daily series and totalLines are the same for every order in
\* which the store may return the same commits, commits with equal
\* timestamps included
C28_OrderIndependence ==
    /\ ui.shown = "range" =>
           \A list \in Reordered(ui.commitList) :
               /\ generateChartData(ui.zone, list) = ui.chartData
               /\ setTotalLines(<<>>, list) = ui.totalLines
    /\ ui.shown = "today" =>
           \A list \in Reordered(ui.commitList) :
               generateChartDataApp(ui.zone, ui.now, list) = ui.chartData
\* the later version has drawn a list that was not in the order of its
\* timestamps and holds two different commits with the same timestamp
C28_Witness ==
    /\ ui.shown = "range"
    /\ \E i, j \in DOMAIN ui.commitList :
           /\ i < j
           /\ ui.commitList[i].timestamp > ui.commitList[j].timestamp
    /\ \E i, j \in DOMAIN ui.commitList :
           /\ ui.commitList[i].timestamp = ui.commitList[j].timestamp
           /\ ui.commitList[i] # ui.commitList[j]

(* ---- C29 ---- *)
RECURSIVE SumCommits(_)
SumCommits(authors) ==
    IF authors = <<>> THEN 0
    ELSE authors[1].commits + SumCommits(Tail(authors))
\* the commit counts, additions and deletions of the entries add up to those
\* of the commits handled, and no entry has a commit count of 0
Conserved ==
    /\ Stats.totalCommits = Len(ui.commits)
    /\ SumCommits(Stats.authors) = Stats.totalCommits
    /\ SumAdditions(Stats.authors) = SumAdditions(ui.commits)
    /\ SumDeletions(Stats.authors) = SumDeletions(ui.commits)
    /\ \A k \in DOMAIN Stats.authors : Stats.authors[k].commits > 0
\* C29: every commit is counted in exactly one entry of the author summary:
\* the commit counts of the entries add up to totalCommits, their additions
\* and deletions to the totals over all commits, and no entry has a commit
\* count of 0
C29_Conservation == ui.shown # "none" => Conserved
\* C29 for the lists without an author that spells an inherited property of
\* authorStats
C29_OwnNames ==
    ( /\ ui.shown # "none"
      /\ \A k \in DOMAIN ui.commits :
             /\ normalizeName(ui.commits[k].author) \notin ObjectPrototype
             /\ RawName(ui.commits[k].author) \notin ObjectPrototype )
    => Conserved

====
